---- MODULE Spec2Model ----
(***************************************************************************)
(* Model of server.js (MediMind): the section extractor                    *)
(* parseAgentResponse and the three HTTP handlers /api/analyze, /api/chat  *)
(* and /api/health with their outbound calls to the model endpoint         *)
(* (Ollama) and to the store (Supabase).                                   *)
(*                                                                         *)
(* Strings are sequences of tokens.  A token is one code point (an emoji,  *)
(* the variation selector, a blank, a colon, a letter) or one label word   *)
(* (SYMPTOM_ANALYZER, ...), which the regular expressions only ever match  *)
(* as a whole.  Lower-case label words are separate tokens, folded by the  *)
(* regular expressions' i flag.                                            *)
(***************************************************************************)
EXTENDS Integers, Sequences, FiniteSets, TLC

\* ------------------------------------------------------------------ bounds
\* Longest reply of the extractor specification, in pieces (see Pieces).
MaxPieces == 3
\* Number of HTTP requests in flight in the handler specification.
NumReq == 2

VARIABLES
    response,   \* SpecParse: the raw reply handed to parseAgentResponse
    parsed,     \* SpecParse: whether parseAgentResponse has returned
    result,     \* SpecParse: the map parseAgentResponse returned
    pc,         \* per request: where its handler stands
    route,      \* per request: "none", "analyze", "chat" or "health"
    body,       \* per request: req.body (and req.file)
    fullResponse, \* per request: the value callOllama returned
    agents,     \* per request: the map parseAgentResponse returned
    payload,    \* per request: the sequence of rows handed to insert()
    sent,       \* per request: the sequence of responses sent
    modelCalls, \* per request: fetch calls to the model endpoint so far
    storeCalls, \* per request: calls to the store so far
    modelOutcome, \* per request: what the model endpoint answered, in order
    storeOutcome, \* per request: how its call of the store ended
    escaped,    \* per request: an exception left the handler uncaught
    cases       \* the store's "cases" table

vars == <<response, parsed, result, pc, route, body, fullResponse, agents,
          payload, sent, modelCalls, storeCalls, modelOutcome,
          storeOutcome, escaped, cases>>

parseVars == <<response, parsed, result>>
handlerVars == <<pc, route, body, fullResponse, agents, payload, sent,
                 modelCalls, storeCalls, modelOutcome, storeOutcome,
                 escaped, cases>>

\* ------------------------------------------------------------- characters
\* The emoji of the six sections, by code point.  The shield is written with
\* a variation selector (U+1F6E1 U+FE0F), the others are one code point.
MAG == "U+1F50D"
CHART == "U+1F4CA"
SHIELD == "U+1F6E1"
VS16 == "U+FE0F"
LOCK == "U+1F510"
ROBOT == "U+1F916"
PILL == "U+1F48A"

\* \s of the regular expressions and of String.prototype.trim
IsSpace(c) == c \in {" ", "\n"}

\* The i flag: a letter matches in either case.
UpperCase ==
    [symptom_analyzer |-> "SYMPTOM_ANALYZER",
     risk_predictor |-> "RISK_PREDICTOR",
     fraud_detector |-> "FRAUD_DETECTOR",
     security_guardian |-> "SECURITY_GUARDIAN",
     coordinator |-> "COORDINATOR",
     _insights |-> "_INSIGHTS",
     recommendations |-> "RECOMMENDATIONS",
     x |-> "X"]

Fold(c) == IF c \in DOMAIN UpperCase THEN UpperCase[c] ELSE c

\* ------------------------------------------------------ parseAgentResponse
Keys == {"symptom", "risk", "fraud", "security", "coordinator",
         "recommendations"}

agentsInitNoRecommendations == [key \in Keys \ {"recommendations"} |-> <<>>]

\* const agents = { symptom: "", ..., recommendations: "" }
agentsInit == [key \in Keys |-> <<>>]

\* The six regular expressions: the emoji and the label of the start
\* marker, and the alternatives of the lookahead that ends the capture
\* (besides $).
sections ==
    [symptom |->
        [emoji |-> <<MAG>>, label |-> <<"SYMPTOM_ANALYZER">>,
         terms |-> {<<CHART>>, <<"RISK_PREDICTOR">>, <<SHIELD, VS16>>,
                    <<"FRAUD_DETECTOR">>, <<LOCK>>, <<"SECURITY_GUARDIAN">>,
                    <<ROBOT>>, <<"COORDINATOR">>, <<PILL>>,
                    <<"RECOMMENDATIONS">>}],
     risk |->
        [emoji |-> <<CHART>>, label |-> <<"RISK_PREDICTOR">>,
         terms |-> {<<SHIELD, VS16>>, <<"FRAUD_DETECTOR">>, <<LOCK>>,
                    <<"SECURITY_GUARDIAN">>, <<ROBOT>>, <<"COORDINATOR">>,
                    <<PILL>>, <<"RECOMMENDATIONS">>}],
     fraud |->
        [emoji |-> <<SHIELD, VS16>>, label |-> <<"FRAUD_DETECTOR">>,
         terms |-> {<<LOCK>>, <<"SECURITY_GUARDIAN">>, <<ROBOT>>,
                    <<"COORDINATOR">>, <<PILL>>, <<"RECOMMENDATIONS">>}],
     security |->
        [emoji |-> <<LOCK>>, label |-> <<"SECURITY_GUARDIAN">>,
         terms |-> {<<ROBOT>>, <<"COORDINATOR">>, <<PILL>>,
                    <<"RECOMMENDATIONS">>}],
     coordinator |->
        [emoji |-> <<ROBOT>>, label |-> <<"COORDINATOR", "_INSIGHTS">>,
         terms |-> {<<PILL>>, <<"RECOMMENDATIONS">>}],
     recommendations |->
        [emoji |-> <<PILL>>, label |-> <<"RECOMMENDATIONS">>,
         terms |-> {}]]

\* A literal of a pattern matches the text at position i.
MatchesAt(s, i, pat) ==
    /\ i >= 1
    /\ i + Len(pat) - 1 <= Len(s)
    /\ \A j \in 1..Len(pat) : Fold(s[i + j - 1]) = Fold(pat[j])

\* \s* (greedy) from position i: the position after the blanks.
RECURSIVE SkipSpace(_, _)
SkipSpace(s, i) ==
    IF i <= Len(s) /\ IsSpace(s[i]) THEN SkipSpace(s, i + 1) ELSE i

\* emoji \s* LABEL :? \s* from position i: the position where the capture
\* group starts, or 0 when the prefix does not match at i.
PrefixEnd(key, s, i) ==
    LET sec == sections[key]
        b == SkipSpace(s, i + Len(sec.emoji))
        c == b + Len(sec.label)
        d == IF c <= Len(s) /\ s[c] = ":" THEN c + 1 ELSE c
    IN  IF MatchesAt(s, i, sec.emoji) /\ MatchesAt(s, b, sec.label)
        THEN SkipSpace(s, d)
        ELSE 0

\* (?=...|$) at position j: one of the alternatives follows, or the input
\* ends (no m flag: $ is the end of the input only).
LookaheadAt(key, s, j) ==
    \/ j = Len(s) + 1
    \/ \E t \in sections[key].terms : MatchesAt(s, j, t)

\* The leftmost position from i on at which the regular expression of key
\* can start, or 0 when there is none.
RECURSIVE FirstStart(_, _, _)
FirstStart(key, s, i) ==
    IF i > Len(s) THEN 0
    ELSE IF PrefixEnd(key, s, i) # 0 THEN i
    ELSE FirstStart(key, s, i + 1)

\* ([\s\S]*?) from position j: the capture grows by one character until
\* the lookahead holds; the position where it ends.
RECURSIVE LazyEnd(_, _, _)
LazyEnd(key, s, j) ==
    IF LookaheadAt(key, s, j) THEN j ELSE LazyEnd(key, s, j + 1)

\* response.match(sections[key]): the leftmost match and its capture group.
Match(key, s) ==
    LET start == FirstStart(key, s, 1)
    IN  IF start = 0
        THEN [found |-> FALSE, cap |-> <<>>]
        ELSE LET from == PrefixEnd(key, s, start)
                 to == LazyEnd(key, s, from)
             IN  [found |-> TRUE, cap |-> SubSeq(s, from, to - 1)]

\* String.prototype.trim
RECURSIVE trimStart(_)
trimStart(s) ==
    IF s # <<>> /\ IsSpace(Head(s)) THEN trimStart(Tail(s)) ELSE s

RECURSIVE trimEnd(_)
trimEnd(s) ==
    IF s # <<>> /\ IsSpace(s[Len(s)])
    THEN trimEnd(SubSeq(s, 1, Len(s) - 1))
    ELSE s

trim(s) == trimEnd(trimStart(s))

\* Object.keys(sections).forEach((key) => { ... }): the keys of agents
\* after the loop, and for each the value it holds:
\* if (match && match[1]) agents[key] = match[1].trim()
parseAgentResponse(s) ==
    LET match == [key \in DOMAIN sections |-> Match(key, s)]
        assigned == {key \in DOMAIN sections :
                        match[key].found /\ match[key].cap # <<>>}
    IN  [key \in DOMAIN agentsInit \cup assigned |->
            IF key \in assigned
            THEN trim(match[key].cap)
            ELSE agentsInit[key]]

\* ------------------------------------------------------------- JS values
Undef == [t |-> "undefined"]
Null == [t |-> "null"]
NaN == [t |-> "NaN"]
Str(s) == [t |-> "string", s |-> s]
Num(n) == [t |-> "number", n |-> n]
Array(items) == [t |-> "array", items |-> items]

\* ToBoolean, as !v and v || w apply it
Truthy(v) ==
    CASE v.t = "string" -> v.s # <<>>
      [] v.t = "number" -> v.n # 0
      [] OTHER -> FALSE

\* v || null
OrNull(v) == IF Truthy(v) THEN v ELSE Null

Digits == <<"0", "1", "2", "3", "4", "5", "6", "7", "8", "9">>
IsDigit(c) == \E d \in 1..10 : Digits[d] = c
DigitVal(c) == (CHOOSE d \in 1..10 : Digits[d] = c) - 1

\* ToString of a non-negative integer
RECURSIVE NatToString(_)
NatToString(n) ==
    IF n < 10 THEN <<Digits[n + 1]>>
    ELSE NatToString(n \div 10) \o <<Digits[(n % 10) + 1]>>

JSToString(v) ==
    CASE v.t = "string" -> v.s
      [] v.t = "number" -> NatToString(v.n)
      [] OTHER -> <<v.t>>

\* The value of the longest prefix of digits of s, after acc
RECURSIVE DigitsValue(_, _)
DigitsValue(s, acc) ==
    IF s # <<>> /\ IsDigit(Head(s))
    THEN DigitsValue(Tail(s), 10 * acc + DigitVal(Head(s)))
    ELSE acc

\* parseInt(v, 10): blanks skipped, then the leading digits; NaN without one
parseInt(v) ==
    LET s == trimStart(JSToString(v))
    IN  IF s # <<>> /\ IsDigit(Head(s)) THEN Num(DigitsValue(s, 0)) ELSE NaN

\* ----------------------------------------------------------------- inputs
Reqs == 1..NumReq

\* The start marker of a section as the prompt writes it: emoji, blank,
\* label, colon.
Marker(key) == sections[key].emoji \o <<" ">> \o sections[key].label \o <<":">>

\* The replies of the extractor specification are made of these pieces: the
\* six markers, blanks, body text, a colon, and words and emoji of the
\* markers on their own, in either case.
Pieces ==
    {Marker(key) : key \in Keys} \cup
    {<<" ">>, <<"\n">>, <<"x">>, <<":">>, <<"recommendations">>,
     <<"COORDINATOR">>, <<CHART>>, <<MAG>>, <<"symptom_analyzer">>,
     <<SHIELD>>}

RECURSIVE Flatten(_)
Flatten(ps) == IF ps = <<>> THEN <<>> ELSE Head(ps) \o Flatten(Tail(ps))

Replies ==
    {Flatten(ps) : ps \in UNION {[1..n -> Pieces] : n \in 0..MaxPieces}}

\* ---------------------------------------------------------- initial states
InitHandlers ==
    /\ pc = [r \in Reqs |-> "idle"]
    /\ route = [r \in Reqs |-> "none"]
    /\ body = [r \in Reqs |-> Undef]
    /\ fullResponse = [r \in Reqs |-> Undef]
    /\ agents = [r \in Reqs |-> Undef]
    /\ payload = [r \in Reqs |-> <<>>]
    /\ sent = [r \in Reqs |-> <<>>]
    /\ modelCalls = [r \in Reqs |-> 0]
    /\ storeCalls = [r \in Reqs |-> 0]
    /\ modelOutcome = [r \in Reqs |-> <<>>]
    /\ storeOutcome = [r \in Reqs |-> "none"]
    /\ escaped = [r \in Reqs |-> FALSE]
    /\ cases = <<>>

\* ------------------------------------------- the extractor on its own
InitParse ==
    /\ response \in Replies
    /\ parsed = FALSE
    /\ result = Undef
    /\ InitHandlers

\* agents = parseAgentResponse(response)
Parse ==
    /\ ~parsed
    /\ parsed' = TRUE
    /\ result' = parseAgentResponse(response)
    /\ UNCHANGED <<response, handlerVars>>

NextParse == Parse

SpecParse == InitParse /\ [][NextParse]_vars

\* --------------------------------------------------------------- handlers
\* What the environment of the handler specification supplies.

\* req.body and req.file of POST /api/analyze
AnalyzeBodies ==
    {[symptoms |-> Str(<<"c">>), age |-> Str(<<"3", "0">>),
      history |-> Undef, file |-> FALSE],
     [symptoms |-> Str(<<"f">>), age |-> Num(7),
      history |-> Str(<<"h">>), file |-> TRUE],
     [symptoms |-> Str(<<"c">>), age |-> Undef,
      history |-> Undef, file |-> FALSE],
     [symptoms |-> Undef, age |-> Str(<<"3", "0">>),
      history |-> Str(<<"h">>), file |-> FALSE],
     [symptoms |-> Str(<<>>), age |-> Num(0),
      history |-> Undef, file |-> FALSE]}

\* req.body of POST /api/chat
ChatBodies == {[caseContext |-> Str(<<"c">>), question |-> Str(<<"q">>)]}

\* A reply with the six sections as the prompt asks for them.
FullReply ==
    Marker("symptom") \o <<" ", "a", "\n">> \o
    Marker("risk") \o <<" ", "b", "\n">> \o
    Marker("fraud") \o <<" ", "c", "\n">> \o
    Marker("security") \o <<" ", "d", "\n">> \o
    Marker("coordinator") \o <<" ", "e", "\n">> \o
    Marker("recommendations") \o <<" ", "f">>

\* A reply with two of the six sections.
PartialReply ==
    Marker("risk") \o <<" ", "b", "\n">> \o
    Marker("recommendations") \o <<" ", "g", "\n">>

\* data.message.content of the model endpoint's answer
Contents == {Str(FullReply), Str(PartialReply), Undef}

\* How fetch(OLLAMA_URL) ends: the network call fails, or it answers with a
\* non-success or with a success status.
FetchOutcomes == {"reject", "notok", "ok"}

\* How response.json() and data.message.content end, on a success status:
\* the body is no JSON, it has no message, or message.content is a value.
JsonOutcomes ==
    {[kind |-> "badJson"], [kind |-> "noMessage"]} \cup
    {[kind |-> "content", content |-> c] : c \in Contents}

\* How the store's insert(...).select() ends.
InsertOutcomes == {"row", "noData", "error", "throw"}

\* How the store's select("id").limit(1) ends.
SelectOutcomes == {"ok", "error", "throw"}

StoreError == [message |-> "store error"]
StoreException == [message |-> "store unreachable"]

\* What a piece of a handler does to the client: the responses it sends and
\* whether an exception leaves the handler.
Reply(status, json) ==
    [send |-> <<[status |-> status, json |-> json]>>, escaped |-> FALSE]

MsgMissing == "Missing symptoms or age"
MsgOllama == "Ollama inference failed. Make sure Ollama is running."
MsgSave == "Failed to save case to database"
MsgChat == "Chat failed"

ValidSymptomsOnly(b) == Truthy(b.symptoms)

\* if (!symptoms || !age) return res.status(400)...
Valid(b) == Truthy(b.symptoms) /\ Truthy(b.age)

AnalyzeInvalid == Reply(400, [error |-> MsgMissing])

\* catch (err) of /api/analyze
AnalyzeCatch == Reply(500, [error |-> MsgOllama])

\* catch (err) of /api/chat
ChatCatch == Reply(500, [error |-> MsgChat])

RowSwapsColumns(b, full, ag) ==
    [user_id |-> Null,
     symptoms |-> b.symptoms,
     age |-> parseInt(b.age),
     history |-> OrNull(b.history),
     symptom_analyzer |-> OrNull(Str(ag["symptom"])),
     risk_predictor |-> OrNull(Str(ag["symptom"])),
     fraud_detector |-> OrNull(Str(ag["fraud"])),
     security_guardian |-> OrNull(Str(ag["security"])),
     coordinator_insights |-> OrNull(Str(ag["coordinator"])),
     recommendations |-> OrNull(Str(ag["recommendations"])),
     full_response |-> full,
     prescription_text |-> Null,
     prescription_flag |-> IF b.file THEN "UPLOADED" ELSE "NONE"]

\* The object handed to supabase.from("cases").insert(...)
Row(b, full, ag) ==
    [user_id |-> Null,
     symptoms |-> b.symptoms,
     age |-> parseInt(b.age),
     history |-> OrNull(b.history),
     symptom_analyzer |-> OrNull(Str(ag["symptom"])),
     risk_predictor |-> OrNull(Str(ag["risk"])),
     fraud_detector |-> OrNull(Str(ag["fraud"])),
     security_guardian |-> OrNull(Str(ag["security"])),
     coordinator_insights |-> OrNull(Str(ag["coordinator"])),
     recommendations |-> OrNull(Str(ag["recommendations"])),
     full_response |-> full,
     prescription_text |-> Null,
     prescription_flag |-> IF b.file THEN "UPLOADED" ELSE "NONE"]

\* { data, error } of the insert, by outcome; id is the identifier the store
\* gives the row.
InsertResult(outcome, id) ==
    CASE outcome = "row" ->
            [data |-> Array(<<[id |-> Num(id)]>>), error |-> Null]
      [] outcome = "noData" -> [data |-> Null, error |-> Null]
      [] outcome = "error" -> [data |-> Null, error |-> StoreError]

\* data?.[0]?.id || null
CaseId(data) ==
    IF data.t # "array" \/ data.items = <<>>
    THEN Null
    ELSE OrNull(data.items[1].id)

AfterInsertIgnoresError(outcome, id, full, ag) ==
    IF outcome = "throw"
    THEN AnalyzeCatch
    ELSE Reply(200, [fullResponse |-> full, agents |-> ag,
                     caseId |-> CaseId(InsertResult(outcome, id).data)])

\* /api/analyze from the insert's return to the end of the handler
AfterInsert(outcome, id, full, ag) ==
    IF outcome = "throw"
    THEN AnalyzeCatch
    ELSE LET r == InsertResult(outcome, id)
         IN  IF r.error # Null
             THEN Reply(500, [error |-> MsgSave])
             ELSE Reply(200, [fullResponse |-> full, agents |-> ag,
                              caseId |-> CaseId(r.data)])

\* res.json({ reply }) (a reply that is undefined is left out on the wire)
ChatOk(reply) == Reply(200, [reply |-> reply])

AfterSelectIgnoresError(outcome) ==
    IF outcome = "throw"
    THEN Reply(500, [status |-> "error", message |-> StoreException.message])
    ELSE Reply(200, [status |-> "ok"])

AfterSelectNoCatch(outcome) ==
    CASE outcome = "ok" -> Reply(200, [status |-> "ok"])
      [] OTHER -> [send |-> <<>>, escaped |-> TRUE]

\* /api/health from the select's return to the end of the handler
AfterSelect(outcome) ==
    CASE outcome = "ok" -> Reply(200, [status |-> "ok"])
      [] outcome = "error" ->
            Reply(500, [status |-> "error", message |-> StoreError.message])
      [] outcome = "throw" ->
            Reply(500, [status |-> "error", message |-> StoreException.message])

AfterFetchIgnoresStatus(outcome) ==
    CASE outcome = "reject" -> "throw"
      [] OTHER -> "awaitJson"

\* callOllama after fetch: a failed call throws, if (!response.ok) reads the
\* text to throw it, otherwise the JSON is read.
AfterFetch(outcome) ==
    CASE outcome = "reject" -> "throw"
      [] outcome = "notok" -> "awaitText"
      [] outcome = "ok" -> "awaitJson"

\* The handler of request r ends with what the piece h does.
Finish(r, h) ==
    /\ sent' = [sent EXCEPT ![r] = @ \o h.send]
    /\ escaped' = [escaped EXCEPT ![r] = h.escaped]
    /\ pc' = [pc EXCEPT ![r] = "done"]

Catch(r) == Finish(r, IF route[r] = "analyze" THEN AnalyzeCatch ELSE ChatCatch)

\* ---------------------------------------------------------------- actions
\* Each action is one run of a handler between two awaits.

\* POST /api/analyze arrives: validation, the prompts, the fetch of
\* callOllama.
AnalyzeStart(r, b) ==
    /\ pc[r] = "idle"
    /\ route' = [route EXCEPT ![r] = "analyze"]
    /\ body' = [body EXCEPT ![r] = b]
    /\ IF ~Valid(b)
       THEN /\ Finish(r, AnalyzeInvalid)
            /\ UNCHANGED modelCalls
       ELSE /\ modelCalls' = [modelCalls EXCEPT ![r] = @ + 1]
            /\ pc' = [pc EXCEPT ![r] = "awaitFetch"]
            /\ UNCHANGED <<sent, escaped>>
    /\ UNCHANGED <<parseVars, fullResponse, agents, payload, storeCalls,
                   modelOutcome, storeOutcome, cases>>

\* POST /api/chat arrives: the fetch of callOllama.
ChatStart(r, b) ==
    /\ pc[r] = "idle"
    /\ route' = [route EXCEPT ![r] = "chat"]
    /\ body' = [body EXCEPT ![r] = b]
    /\ modelCalls' = [modelCalls EXCEPT ![r] = @ + 1]
    /\ pc' = [pc EXCEPT ![r] = "awaitFetch"]
    /\ UNCHANGED <<parseVars, fullResponse, agents, payload, sent, storeCalls,
                   modelOutcome, storeOutcome, escaped, cases>>

HealthStartChecksModel(r) ==
    /\ pc[r] = "idle"
    /\ route' = [route EXCEPT ![r] = "health"]
    /\ modelCalls' = [modelCalls EXCEPT ![r] = @ + 1]
    /\ storeCalls' = [storeCalls EXCEPT ![r] = @ + 1]
    /\ pc' = [pc EXCEPT ![r] = "awaitSelect"]
    /\ UNCHANGED <<parseVars, body, fullResponse, agents, payload, sent,
                   modelOutcome, storeOutcome, escaped, cases>>

\* GET /api/health arrives: the select on the store.
HealthStart(r) ==
    /\ pc[r] = "idle"
    /\ route' = [route EXCEPT ![r] = "health"]
    /\ storeCalls' = [storeCalls EXCEPT ![r] = @ + 1]
    /\ pc' = [pc EXCEPT ![r] = "awaitSelect"]
    /\ UNCHANGED <<parseVars, body, fullResponse, agents, payload, sent,
                   modelCalls, modelOutcome, storeOutcome, escaped, cases>>

\* callOllama: fetch returns.
FetchReturns(r, o) ==
    /\ pc[r] = "awaitFetch"
    /\ modelOutcome' = [modelOutcome EXCEPT ![r] = Append(@, [kind |-> o])]
    /\ IF AfterFetch(o) = "throw"
       THEN Catch(r)
       ELSE /\ pc' = [pc EXCEPT ![r] = AfterFetch(o)]
            /\ UNCHANGED <<sent, escaped>>
    /\ UNCHANGED <<parseVars, route, body, fullResponse, agents, payload,
                   modelCalls, storeCalls, storeOutcome, cases>>

\* callOllama: response.text() returns or fails; either way callOllama
\* throws.
TextReturns(r) ==
    /\ pc[r] = "awaitText"
    /\ modelOutcome' = [modelOutcome EXCEPT ![r] = Append(@, [kind |-> "text"])]
    /\ Catch(r)
    /\ UNCHANGED <<parseVars, route, body, fullResponse, agents, payload,
                   modelCalls, storeCalls, storeOutcome, cases>>

\* callOllama: response.json() returns or fails, data.message.content is
\* read, and the handler goes on with the value: /api/chat answers,
\* /api/analyze extracts the sections and calls the store's insert.
JsonReturns(r, o) ==
    /\ pc[r] = "awaitJson"
    /\ modelOutcome' = [modelOutcome EXCEPT ![r] = Append(@, o)]
    /\ IF o.kind # "content"
       THEN /\ Catch(r)
            /\ UNCHANGED <<fullResponse, agents, payload, storeCalls>>
       ELSE /\ fullResponse' = [fullResponse EXCEPT ![r] = o.content]
            /\ IF route[r] = "chat"
               THEN /\ Finish(r, ChatOk(o.content))
                    /\ UNCHANGED <<agents, payload, storeCalls>>
               ELSE IF o.content.t # "string"
               THEN \* response.match is not a function of a non-string
                    /\ Catch(r)
                    /\ UNCHANGED <<agents, payload, storeCalls>>
               ELSE /\ agents' = [agents EXCEPT
                                    ![r] = parseAgentResponse(o.content.s)]
                    /\ payload' = [payload EXCEPT
                                     ![r] = @ \o <<Row(body[r], o.content,
                                                      agents'[r])>>]
                    /\ storeCalls' = [storeCalls EXCEPT ![r] = @ + 1]
                    /\ pc' = [pc EXCEPT ![r] = "awaitInsert"]
                    /\ UNCHANGED <<sent, escaped>>
    /\ UNCHANGED <<parseVars, route, body, modelCalls, storeOutcome, cases>>

\* /api/analyze: the store's insert returns.
InsertReturns(r, o) ==
    /\ pc[r] = "awaitInsert"
    /\ storeOutcome' = [storeOutcome EXCEPT ![r] = o]
    /\ cases' = IF o \in {"row", "noData"}
                THEN Append(cases, [id |-> Len(cases) + 1,
                                    row |-> payload[r][Len(payload[r])]])
                ELSE cases
    /\ Finish(r, AfterInsert(o, Len(cases) + 1, fullResponse[r], agents[r]))
    /\ UNCHANGED <<parseVars, route, body, fullResponse, agents, payload,
                   modelCalls, storeCalls, modelOutcome>>

\* /api/health: the store's select returns.
SelectReturns(r, o) ==
    /\ pc[r] = "awaitSelect"
    /\ storeOutcome' = [storeOutcome EXCEPT ![r] = o]
    /\ Finish(r, AfterSelect(o))
    /\ UNCHANGED <<parseVars, route, body, fullResponse, agents, payload,
                   modelCalls, storeCalls, modelOutcome, cases>>

Init ==
    /\ response = <<>>
    /\ parsed = FALSE
    /\ result = Undef
    /\ InitHandlers

Next ==
    \E r \in Reqs :
        \/ \E b \in AnalyzeBodies : AnalyzeStart(r, b)
        \/ \E b \in ChatBodies : ChatStart(r, b)
        \/ HealthStart(r)
        \/ \E o \in FetchOutcomes : FetchReturns(r, o)
        \/ TextReturns(r)
        \/ \E o \in JsonOutcomes : JsonReturns(r, o)
        \/ \E o \in InsertOutcomes : InsertReturns(r, o)
        \/ \E o \in SelectOutcomes : SelectReturns(r, o)

Spec == Init /\ [][Next]_vars

\* ------------------------------------------------------------- properties
Done(r) == pc[r] = "done"
Awaiting == {"awaitFetch", "awaitText", "awaitJson", "awaitInsert",
             "awaitSelect"}

\* The kinds of answers the model endpoint gave request r.
ModelKinds(r) == {modelOutcome[r][i].kind : i \in 1..Len(modelOutcome[r])}

\* The endpoint answered a non-success status or the network call failed.
FetchFailed(r) == ModelKinds(r) \cap {"reject", "notok"} # {}

\* callOllama threw.
CallOllamaThrew(r) ==
    ModelKinds(r) \cap {"reject", "notok", "badJson", "noMessage"} # {}

\* callOllama returned a value.
CallOllamaReturned(r) ==
    /\ Len(modelOutcome[r]) = 2
    /\ modelOutcome[r][1].kind = "ok"
    /\ modelOutcome[r][2].kind = "content"

\* The one response sent to request r has this status.
Answered(r, status) == Len(sent[r]) = 1 /\ sent[r][1].status = status

\* C1: an analyze request in which symptoms or age is missing is answered
\* 400 with an error field, and makes no model call and no store call.
C1_MissingFieldIs400 ==
    \A r \in Reqs :
        (route[r] = "analyze"
         /\ (body[r].symptoms = Undef \/ body[r].age = Undef))
        => /\ Done(r)
           /\ Answered(r, 400)
           /\ "error" \in DOMAIN sent[r][1].json
           /\ modelCalls[r] = 0
           /\ storeCalls[r] = 0
           /\ payload[r] = <<>>

C1_Witness ==
    \E r \in Reqs :
        /\ route[r] = "analyze"
        /\ body[r].symptoms # Undef
        /\ body[r].age = Undef
        /\ Answered(r, 400)

\* C2: a valid analyze request whose model call fails (non-success status
\* or failed network call) is answered 500, and no insert is made for it.
C2_ModelFailureIs500 ==
    \A r \in Reqs :
        (route[r] = "analyze" /\ FetchFailed(r))
        => /\ pc[r] \in {"awaitText", "done"}
           /\ Done(r) => Answered(r, 500)
           /\ storeCalls[r] = 0
           /\ payload[r] = <<>>

C2_Witness ==
    \E r \in Reqs :
        /\ route[r] = "analyze"
        /\ ModelKinds(r) = {"notok", "text"}
        /\ Answered(r, 500)

\* C3: analyze answers 200 with fullResponse and agents only when the model
\* call and the insert both succeeded; when the insert fails after a
\* successful model call the answer is 500 with an error field only.
C3_AllOrNothing ==
    \A r \in Reqs :
        (route[r] = "analyze" /\ Done(r))
        => /\ Len(sent[r]) = 1
           /\ (sent[r][1].status = 200
               \/ DOMAIN sent[r][1].json \cap {"fullResponse", "agents"} # {})
              => /\ CallOllamaReturned(r)
                 /\ storeOutcome[r] \in {"row", "noData"}
           /\ storeOutcome[r] \in {"error", "throw"}
              => /\ sent[r][1].status = 500
                 /\ DOMAIN sent[r][1].json = {"error"}

C3_Witness ==
    \E r \in Reqs :
        /\ route[r] = "analyze"
        /\ CallOllamaReturned(r)
        /\ storeOutcome[r] = "error"
        /\ Answered(r, 500)

\* C4: a request makes at most one model call and at most one store call;
\* analyze calls the store only after callOllama has returned; chat makes no
\* store call and health no model call.
C4_AtMostOneCallEach ==
    \A r \in Reqs :
        /\ modelCalls[r] <= 1
        /\ storeCalls[r] <= 1
        /\ Len(payload[r]) <= 1
        /\ (route[r] = "analyze" /\ (storeCalls[r] > 0 \/ payload[r] # <<>>))
           => CallOllamaReturned(r) /\ modelCalls[r] = 1
        /\ route[r] = "chat" => storeCalls[r] = 0 /\ payload[r] = <<>>
        /\ route[r] = "health" => modelCalls[r] = 0 /\ modelOutcome[r] = <<>>

C4_Witness ==
    \E r1, r2 \in Reqs :
        /\ route[r1] = "analyze" /\ storeCalls[r1] = 1 /\ modelCalls[r1] = 1
        /\ route[r2] = "health" /\ Done(r2)

\* The column of the cases table that holds a section.
ColumnOf ==
    [symptom |-> "symptom_analyzer", risk |-> "risk_predictor",
     fraud |-> "fraud_detector", security |-> "security_guardian",
     coordinator |-> "coordinator_insights",
     recommendations |-> "recommendations"]

\* The sections of each reply the model endpoint may give.
ExtractedFrom ==
    [c \in {c \in Contents : c.t = "string"} |-> parseAgentResponse(c.s)]

\* C7: whatever the interleaving, the row a request inserts holds that
\* request's symptoms, the reply of its own model call, and in each section
\* column the text extracted from that reply, or null when that is empty.
C7_RowFromOwnData ==
    \A r \in Reqs :
        payload[r] # <<>>
        => LET row == payload[r][1]
               own == modelOutcome[r][Len(modelOutcome[r])].content
           IN  /\ row.symptoms = body[r].symptoms
               /\ row.full_response = own
               /\ LET extracted == ExtractedFrom[own]
                  IN  \A key \in Keys :
                        row[ColumnOf[key]] =
                            IF extracted[key] = <<>>
                            THEN Null
                            ELSE Str(extracted[key])

C7_Witness ==
    \E r1, r2 \in Reqs :
        /\ pc[r1] = "awaitInsert" /\ pc[r2] = "awaitInsert"
        /\ body[r1].symptoms # body[r2].symptoms
        /\ fullResponse[r1] = Str(FullReply)
        /\ fullResponse[r2] = Str(PartialReply)
        /\ payload[r2][1].symptom_analyzer = Null
        /\ payload[r1][1].symptom_analyzer = Str(<<"a">>)

\* C8: a handler sends exactly one response, once its outbound calls have
\* returned, and an exception raised in it gives a 500 response and does not
\* leave the handler.
C8_ExactlyOneResponse ==
    \A r \in Reqs :
        /\ ~escaped[r]
        /\ pc[r] \in Awaiting \cup {"idle"} => sent[r] = <<>>
        /\ Done(r) => Len(sent[r]) = 1
        /\ route[r] # "none" => pc[r] \in Awaiting \cup {"done"}
        /\ (Done(r) /\ (\/ CallOllamaThrew(r)
                        \/ storeOutcome[r] = "throw"
                        \/ (route[r] = "analyze" /\ CallOllamaReturned(r)
                            /\ fullResponse[r].t # "string")))
           => Answered(r, 500)

C8_Witness ==
    \E r \in Reqs :
        /\ route[r] = "health"
        /\ storeOutcome[r] = "throw"
        /\ Answered(r, 500)

\* C9: health answers 200 with status "ok" exactly when the store's read
\* returns without an error, and 500 with status "error" and a message
\* otherwise; it makes no call of the model endpoint.
C9_HealthFollowsStore ==
    \A r \in Reqs :
        (route[r] = "health" /\ Done(r))
        => /\ Len(sent[r]) = 1
           /\ storeOutcome[r] = "ok"
              => sent[r][1] = [status |-> 200, json |-> [status |-> "ok"]]
           /\ storeOutcome[r] # "ok"
              => /\ sent[r][1].status = 500
                 /\ sent[r][1].json.status = "error"
                 /\ "message" \in DOMAIN sent[r][1].json
           /\ modelCalls[r] = 0

C9_Witness ==
    \E r \in Reqs :
        /\ route[r] = "health"
        /\ storeOutcome[r] = "error"
        /\ Answered(r, 500)

\* C10: in analyze the message of a 500 response names the step that
\* failed: the model message is sent only when callOllama failed, the save
\* message only when the insert failed.
C10_MessageNamesFailedStep ==
    \A r \in Reqs :
        (route[r] = "analyze" /\ Done(r) /\ Answered(r, 500))
        => /\ sent[r][1].json.error = MsgOllama => CallOllamaThrew(r)
           /\ sent[r][1].json.error = MsgSave
              => storeOutcome[r] \in {"error", "throw"}

\* --------------------------------------------- properties of the extractor
\* The start marker of key stands at position i of s: its emoji, blanks,
\* its label in either case.
MarkerAt(key, s, i) ==
    /\ MatchesAt(s, i, sections[key].emoji)
    /\ \E j \in (i + Len(sections[key].emoji))..Len(s) :
        /\ \A k \in (i + Len(sections[key].emoji))..(j - 1) : IsSpace(s[k])
        /\ MatchesAt(s, j, sections[key].label)

MarkerOccurs(key, s) == \E i \in 1..Len(s) : MarkerAt(key, s, i)

Tokens ==
    {MAG, CHART, SHIELD, VS16, LOCK, ROBOT, PILL, " ", "\n", ":"}
    \cup DOMAIN UpperCase \cup {UpperCase[c] : c \in DOMAIN UpperCase}

\* C5: parseAgentResponse returns a map with exactly the six keys, each a
\* string, and the empty string for every key whose start marker does not
\* occur in the reply.
C5_SixKeysEmptyWhenAbsent ==
    parsed =>
        /\ DOMAIN result = Keys
        /\ \A key \in Keys :
            /\ result[key] \in Seq(Tokens)
            /\ ~MarkerOccurs(key, response) => result[key] = <<>>

C5_Witness ==
    /\ parsed
    /\ MarkerOccurs("symptom", response)
    /\ result["symptom"] # <<>>
    /\ ~MarkerOccurs("recommendations", response)
    /\ result["recommendations"] = <<>>

\* The fixed order of the sections.
Order == <<"symptom", "risk", "fraud", "security", "coordinator",
           "recommendations">>
IndexOf(key) == CHOOSE n \in 1..Len(Order) : Order[n] = key

\* The first position of the start marker of key in s from position i on,
\* or 0 when there is none.
FirstMarker(key, s, i) ==
    IF \E j \in i..Len(s) : MarkerAt(key, s, j)
    THEN CHOOSE j \in i..Len(s) :
            /\ MarkerAt(key, s, j)
            /\ \A k \in i..(j - 1) : ~MarkerAt(key, s, k)
    ELSE 0

\* The position just after the start marker of key that stands at i (its
\* colon, when it has one, belongs to the marker).
AfterMarker(key, s, i) ==
    LET l == SkipSpace(s, i + Len(sections[key].emoji))
               + Len(sections[key].label)
    IN  IF l <= Len(s) /\ s[l] = ":" THEN l + 1 ELSE l

\* C6: for every key whose start marker occurs, parseAgentResponse returns
\* the text from just after the first occurrence of the marker up to the
\* start marker of the next section in the fixed order (to the end of the
\* reply for the last section), trimmed, whatever that text contains.
\* (Stated for the replies in which the next section's marker follows.)
C6_TextUpToNextMarker ==
    parsed =>
        \A key \in Keys :
            LET first == FirstMarker(key, response, 1)
                from == AfterMarker(key, response, first)
                next == IF IndexOf(key) = Len(Order)
                        THEN Len(response) + 1
                        ELSE FirstMarker(Order[IndexOf(key) + 1], response,
                                         from)
            IN  (first # 0 /\ next # 0)
                => result[key] = trim(SubSeq(response, from, next - 1))

====
